---- MODULE Spec2Model ----
(***************************************************************************)
(* The game-scheme editor page (QTfrontend/pagescheme.cpp): a combo box    *)
(* selecting one row of the scheme table, a widget mapper binding the 40   *)
(* controls of the page to the 40 columns of that row, the lock on the     *)
(* built-in schemes, and the New / Copy / Delete buttons.                  *)
(*                                                                         *)
(* Row and column numbers are the source's (0-based); the table itself is  *)
(* a sequence, so row n of the table is schemes[n + 1].                    *)
(***************************************************************************)
EXTENDS Integers, Sequences, FiniteSets

(***************************************************************************)
(* Bounds of the model.                                                    *)
(***************************************************************************)
\* the table never grows beyond MaxRows rows
MaxRows == 4
\* at most MaxEdits field edits in one run
MaxEdits == 1

(***************************************************************************)
(* The controls of the page.                                               *)
(***************************************************************************)
\* PageScheme::setModel: mapper->addMapping(control, column)
mapping ==
  [ LE_name                |-> 0,
    TBW_mode_Forts         |-> 1,
    TBW_teamsDivide        |-> 2,
    TBW_solid              |-> 3,
    TBW_border             |-> 4,
    TBW_lowGravity         |-> 5,
    TBW_laserSight         |-> 6,
    TBW_invulnerable       |-> 7,
    TBW_resethealth        |-> 8,
    TBW_vampiric           |-> 9,
    TBW_karma              |-> 10,
    TBW_artillery          |-> 11,
    TBW_randomorder        |-> 12,
    TBW_king               |-> 13,
    TBW_placehog           |-> 14,
    TBW_sharedammo         |-> 15,
    TBW_disablegirders     |-> 16,
    TBW_disablelandobjects |-> 17,
    TBW_aisurvival         |-> 18,
    TBW_infattack          |-> 19,
    TBW_resetweps          |-> 20,
    TBW_perhogammo         |-> 21,
    TBW_nowind             |-> 22,
    TBW_morewind           |-> 23,
    TBW_tagteam            |-> 24,
    SB_DamageModifier      |-> 25,
    SB_TurnTime            |-> 26,
    SB_InitHealth          |-> 27,
    SB_SuddenDeath         |-> 28,
    SB_CaseProb            |-> 29,
    SB_MinesTime           |-> 30,
    SB_Mines               |-> 31,
    SB_MineDuds            |-> 32,
    SB_Explosives          |-> 33,
    SB_HealthCrates        |-> 34,
    SB_CrateHealth         |-> 35,
    SB_WaterRise           |-> 36,
    SB_HealthDecrease      |-> 37,
    SB_RopeModifier        |-> 38,
    SB_GetAwayTime         |-> 39 ]

\* the spin boxes as the constructor sets them up: setRange(min, max),
\* setValue(value), setSingleStep(step).  SB_CaseProb gets no setSingleStep
\* and keeps the toolkit's step of 1.
SpinBoxes ==
  [ SB_DamageModifier |-> [min |-> 10, max |-> 300,  value |-> 100, step |-> 25],
    SB_TurnTime       |-> [min |-> 1,  max |-> 9999, value |-> 45,  step |-> 15],
    SB_InitHealth     |-> [min |-> 50, max |-> 200,  value |-> 100, step |-> 25],
    SB_SuddenDeath    |-> [min |-> 0,  max |-> 50,   value |-> 15,  step |-> 3],
    SB_WaterRise      |-> [min |-> 0,  max |-> 100,  value |-> 47,  step |-> 5],
    SB_HealthDecrease |-> [min |-> 0,  max |-> 100,  value |-> 5,   step |-> 1],
    SB_RopeModifier   |-> [min |-> 25, max |-> 999,  value |-> 100, step |-> 25],
    SB_CaseProb       |-> [min |-> 0,  max |-> 9,    value |-> 5,   step |-> 1],
    SB_HealthCrates   |-> [min |-> 0,  max |-> 100,  value |-> 35,  step |-> 5],
    SB_CrateHealth    |-> [min |-> 0,  max |-> 200,  value |-> 25,  step |-> 5],
    SB_MinesTime      |-> [min |-> -1, max |-> 5,    value |-> 3,   step |-> 1],
    SB_Mines          |-> [min |-> 0,  max |-> 80,   value |-> 0,   step |-> 5],
    SB_MineDuds       |-> [min |-> 0,  max |-> 100,  value |-> 0,   step |-> 5],
    SB_Explosives     |-> [min |-> 0,  max |-> 40,   value |-> 0,   step |-> 1],
    SB_GetAwayTime    |-> [min |-> 0,  max |-> 999,  value |-> 100, step |-> 25] ]

Controls  == DOMAIN mapping
SpinCtl   == DOMAIN SpinBoxes
\* the toggle buttons are created as children of gbGameModes
ToggleCtl == Controls \ (SpinCtl \cup {"LE_name"})
Columns   == 0..39

\* the widget whose enabled flag governs a control: the spin boxes are
\* children of gbBasicSettings, the toggle buttons of gbGameModes, the name
\* field stands alone
groupOf(w) ==
  IF w \in SpinCtl THEN "gbBasicSettings"
  ELSE IF w \in ToggleCtl THEN "gbGameModes"
  ELSE "LE_name"

(***************************************************************************)
(* The spin box of the toolkit, as the constructor configures it.          *)
(***************************************************************************)
\* QSpinBox::setValue and stepBy keep the value inside [min, max]
bound(w, v) ==
  IF v < SpinBoxes[w].min THEN SpinBoxes[w].min
  ELSE IF v > SpinBoxes[w].max THEN SpinBoxes[w].max
  ELSE v

\* one click on an arrow, the result not brought back into [min, max]
stepBy_unbounded(w, v, n) == v + n * SpinBoxes[w].step

\* one click on the up (n = 1) or down (n = -1) arrow
stepBy(w, v, n) == bound(w, v + n * SpinBoxes[w].step)

\* a typed value: the validator refuses what lies outside [min, max] and
\* the box falls back to the value it had
typeValue(w, old, v) ==
  IF v >= SpinBoxes[w].min /\ v <= SpinBoxes[w].max THEN v ELSE old

(***************************************************************************)
(* The scheme table (AmmoSchemeModel).                                     *)
(***************************************************************************)
\* the built-in schemes occupy rows 0 .. numberOfDefaultSchemes - 1
numberOfDefaultSchemes == 2

\* a row: column 0 the name, columns 1..24 the flags, 25..39 the numbers
Scheme(name, flagsOn, params) ==
  [k \in Columns |->
     IF k = 0 THEN name
     ELSE IF k <= 24 THEN (k \in flagsOn)
     ELSE params[k]]

\* the row a "new" scheme starts from
defaultScheme ==
  Scheme("new", {},
    [k \in 25..39 |->
       CASE k = 25 -> 100 [] k = 26 -> 45 [] k = 27 -> 100 [] k = 28 -> 15
         [] k = 29 -> 5   [] k = 30 -> 3  [] k = 31 -> 0   [] k = 32 -> 0
         [] k = 33 -> 0   [] k = 34 -> 35 [] k = 35 -> 25  [] k = 36 -> 47
         [] k = 37 -> 5   [] k = 38 -> 100 [] k = 39 -> 100])

\* the built-in rows the table starts with (n = 0, 1, ...): every number
\* inside the range of its spin box, no two rows alike
predefScheme(n) ==
  Scheme(IF n = 0 THEN "Default" ELSE "Pro Mode", {c \in 1..24 : c <= 3 * n},
    [k \in 25..39 |->
       IF n = 0 THEN defaultScheme[k]
       ELSE CASE k = 25 -> 100 [] k = 26 -> 15 [] k = 27 -> 100 [] k = 28 -> 15
              [] k = 29 -> 0   [] k = 30 -> 0  [] k = 31 -> 0   [] k = 32 -> 0
              [] k = 33 -> 2   [] k = 34 -> 35 [] k = 35 -> 25  [] k = 36 -> 47
              [] k = 37 -> 5   [] k = 38 -> 100 [] k = 39 -> 100])

\* a user-defined row saved by an earlier session: several numbers sit on
\* the edge of their range
myScheme ==
  Scheme("MyScheme", {1, 24},
    [k \in 25..39 |->
       CASE k = 25 -> 150 [] k = 26 -> 9990 [] k = 27 -> 200 [] k = 28 -> 49
         [] k = 29 -> 9   [] k = 30 -> -1   [] k = 31 -> 80  [] k = 32 -> 100
         [] k = 33 -> 40  [] k = 34 -> 100  [] k = 35 -> 200 [] k = 36 -> 98
         [] k = 37 -> 0   [] k = 38 -> 999  [] k = 39 -> 0])

rowCount(s) == Len(s)

\* insertRow(row): row = -1 appends a row of default values ("new"), any
\* other row appends a duplicate of that row ("copy")
insertRow(s, row) ==
  IF row = -1 THEN Append(s, defaultScheme)
  ELSE IF row >= 0 /\ row < Len(s) THEN Append(s, s[row + 1])
  ELSE s

\* removeRow(row): refused for a built-in row and for a row that does not
\* exist; otherwise the rows after it move up by one
removeRow(s, row) ==
  IF row < numberOfDefaultSchemes \/ row >= Len(s) THEN s
  ELSE [i \in 1..(Len(s) - 1) |-> IF i <= row THEN s[i] ELSE s[i + 1]]

\* setData(index(row, column), value)
setData(s, row, col, v) ==
  IF row >= 0 /\ row < Len(s) /\ col \in Columns
  THEN [s EXCEPT ![row + 1][col] = v]
  ELSE s

(***************************************************************************)
(* The state of the page.                                                  *)
(***************************************************************************)
VARIABLES
  schemes,       \* the rows of the scheme table (mapper->model())
  modelSet,      \* setModel has run
  currentIndex,  \* selectScheme->currentIndex(), -1 when nothing is selected
  mapperIndex,   \* mapper->currentIndex(), -1 when the mapper has no row
  enabled,       \* enabled flag of gbGameModes, gbBasicSettings and LE_name
  widget,        \* the value each control shows
  prompt,        \* the "Really delete this game scheme?" box is open
  edits,         \* number of field edits so far
  last,          \* history: the operation that ran last
  pre,           \* history: table, selection and lock when that operation began
  copied         \* history: the row made by the last copyRow, while untouched

vars == <<schemes, modelSet, currentIndex, mapperIndex, enabled, widget,
          prompt, edits, last, pre, copied>>

NoPre    == [schemes |-> <<>>, currentIndex |-> -1]
NoCopy   == [valid |-> FALSE, idx |-> -1, src |-> -1, snapshot |-> defaultScheme]
Snapshot == [schemes |-> schemes, currentIndex |-> currentIndex,
             enabled |-> enabled]

\* the table a session starts with: the built-in rows, then the rows the
\* user saved earlier
initialSchemes(custom) ==
  [i \in 1..(numberOfDefaultSchemes + custom) |->
     IF i <= numberOfDefaultSchemes THEN predefScheme(i - 1) ELSE myScheme]

\* the constructor: every widget enabled, the spin boxes on their setValue,
\* the toggle buttons up, the name empty, no model yet
Init ==
  /\ \E custom \in 0..1 : schemes = initialSchemes(custom)
  /\ modelSet = FALSE
  /\ currentIndex = -1
  /\ mapperIndex = -1
  /\ enabled = [gbGameModes |-> TRUE, gbBasicSettings |-> TRUE, LE_name |-> TRUE]
  /\ widget = [w \in Controls |->
                 IF w \in SpinCtl THEN SpinBoxes[w].value
                 ELSE IF w \in ToggleCtl THEN FALSE
                 ELSE ""]
  /\ prompt = FALSE
  /\ edits = 0
  /\ last = [op |-> "init", w |-> "", arg |-> 0]
  /\ pre = NoPre
  /\ copied = NoCopy

(***************************************************************************)
(* The slots behind selectScheme's currentIndexChanged(int).               *)
(***************************************************************************)
\* PageScheme::schemeSelected(n), with the lock shifted by one row
schemeSelected_offByOne(n) ==
  [gbGameModes     |-> n >= numberOfDefaultSchemes - 1,
   gbBasicSettings |-> n >= numberOfDefaultSchemes - 1,
   LE_name         |-> n >= numberOfDefaultSchemes - 1]

\* PageScheme::schemeSelected(n), with > where the source has >=
schemeSelected_strict(n) ==
  [gbGameModes     |-> n > numberOfDefaultSchemes,
   gbBasicSettings |-> n > numberOfDefaultSchemes,
   LE_name         |-> n > numberOfDefaultSchemes]

\* PageScheme::schemeSelected(n): the enabled flags it sets
schemeSelected(n) ==
  [gbGameModes     |-> n >= numberOfDefaultSchemes,
   gbBasicSettings |-> n >= numberOfDefaultSchemes,
   LE_name         |-> n >= numberOfDefaultSchemes]

\* the mapper shows row n of table s in the mapped controls; a spin box
\* takes the value through setValue
populate(s, n) ==
  [w \in Controls |->
     IF w \in SpinCtl THEN bound(w, s[n + 1][mapping[w]])
     ELSE s[n + 1][mapping[w]]]

\* selectScheme emits currentIndexChanged(n) over table s: first
\* mapper->setCurrentIndex(n), which ignores a row that does not exist, then
\* schemeSelected(n)
currentIndexChanged(n, s) ==
  /\ currentIndex' = n
  /\ mapperIndex' = IF n >= 0 /\ n < rowCount(s) THEN n ELSE mapperIndex
  /\ widget' = IF n >= 0 /\ n < rowCount(s) THEN populate(s, n) ELSE widget
  /\ enabled' = schemeSelected(n)

\* selectScheme->setCurrentIndex(n): the signal goes out only on a change
setCurrentIndex(n, s) ==
  IF n # currentIndex
  THEN currentIndexChanged(n, s)
  ELSE UNCHANGED <<currentIndex, mapperIndex, widget, enabled>>

(***************************************************************************)
(* The operations.                                                         *)
(***************************************************************************)
\* PageScheme::setModel: the combo box takes the model and selects its
\* first row, the 40 mappings are added, the mapper goes to the first row
setModel ==
  /\ ~modelSet
  /\ modelSet' = TRUE
  /\ IF rowCount(schemes) > 0
     THEN /\ currentIndex' = 0
          /\ enabled' = schemeSelected(0)
          /\ mapperIndex' = 0
          /\ widget' = populate(schemes, 0)
     ELSE UNCHANGED <<currentIndex, enabled, mapperIndex, widget>>
  /\ last' = [op |-> "setModel", w |-> "", arg |-> 0]
  /\ pre' = NoPre
  /\ UNCHANGED <<schemes, prompt, edits, copied>>

\* the user picks row n in selectScheme
selectRow(n) ==
  /\ modelSet /\ ~prompt
  /\ n \in 0..(rowCount(schemes) - 1)
  /\ n # currentIndex
  /\ setCurrentIndex(n, schemes)
  /\ last' = [op |-> "selectRow", w |-> "", arg |-> 0]
  /\ pre' = NoPre
  /\ UNCHANGED <<schemes, modelSet, prompt, edits, copied>>

\* PageScheme::newRow, asking the table for a copy of the selected row
newRow_copies ==
  /\ modelSet /\ ~prompt
  /\ rowCount(schemes) < MaxRows
  /\ schemes' = insertRow(schemes, currentIndex)
  /\ setCurrentIndex(rowCount(schemes') - 1, schemes')
  /\ last' = [op |-> "newRow", w |-> "", arg |-> 0]
  /\ pre' = Snapshot
  /\ UNCHANGED <<modelSet, prompt, edits, copied>>

\* PageScheme::newRow
newRow ==
  /\ modelSet /\ ~prompt
  /\ rowCount(schemes) < MaxRows
  /\ schemes' = insertRow(schemes, -1)
  /\ setCurrentIndex(rowCount(schemes') - 1, schemes')
  /\ last' = [op |-> "newRow", w |-> "", arg |-> 0]
  /\ pre' = Snapshot
  /\ UNCHANGED <<modelSet, prompt, edits, copied>>

\* PageScheme::copyRow, asking the table for a row of default values
copyRow_default ==
  /\ modelSet /\ ~prompt
  /\ rowCount(schemes) < MaxRows
  /\ schemes' = insertRow(schemes, -1)
  /\ setCurrentIndex(rowCount(schemes') - 1, schemes')
  /\ last' = [op |-> "copyRow", w |-> "", arg |-> 0]
  /\ pre' = Snapshot
  /\ copied' = [valid |-> TRUE, idx |-> rowCount(schemes') - 1,
                src |-> currentIndex, snapshot |-> schemes[currentIndex + 1]]
  /\ UNCHANGED <<modelSet, prompt, edits>>

\* PageScheme::copyRow, inserting the duplicate without selecting it
copyRow_staysSelected ==
  /\ modelSet /\ ~prompt
  /\ rowCount(schemes) < MaxRows
  /\ schemes' = insertRow(schemes, currentIndex)
  /\ last' = [op |-> "copyRow", w |-> "", arg |-> 0]
  /\ pre' = Snapshot
  /\ copied' = [valid |-> TRUE, idx |-> rowCount(schemes') - 1,
                src |-> currentIndex, snapshot |-> schemes[currentIndex + 1]]
  /\ UNCHANGED <<currentIndex, mapperIndex, widget, enabled,
                 modelSet, prompt, edits>>

\* PageScheme::copyRow
copyRow ==
  /\ modelSet /\ ~prompt
  /\ rowCount(schemes) < MaxRows
  /\ schemes' = insertRow(schemes, currentIndex)
  /\ setCurrentIndex(rowCount(schemes') - 1, schemes')
  /\ last' = [op |-> "copyRow", w |-> "", arg |-> 0]
  /\ pre' = Snapshot
  /\ copied' = [valid |-> TRUE, idx |-> rowCount(schemes') - 1,
                src |-> currentIndex, snapshot |-> schemes[currentIndex + 1]]
  /\ UNCHANGED <<modelSet, prompt, edits>>

\* PageScheme::deleteRow up to reallyDelete.exec(): the box opens and the
\* page takes no input until it is answered
deleteRow ==
  /\ modelSet /\ ~prompt
  /\ prompt' = TRUE
  /\ last' = [op |-> "deleteRow", w |-> "", arg |-> 0]
  /\ pre' = Snapshot
  /\ UNCHANGED <<schemes, modelSet, currentIndex, mapperIndex, enabled,
                 widget, edits, copied>>

\* selectScheme after row r left the table, the new selection taken
\* without its announcement: the mapper and the lock stay as they were
rowsRemoved_silent(r, s) ==
  /\ currentIndex' = IF r < rowCount(s) THEN r ELSE rowCount(s) - 1
  /\ UNCHANGED <<mapperIndex, widget, enabled>>

\* selectScheme after row r left the table, the selection left on index r
\* even when the table now ends before it
rowsRemoved_keepsIndex(r, s) == currentIndexChanged(r, s)

\* selectScheme after row r left the table, now s: the selection lands on
\* the row that took its place, or on the last one, and is announced
rowsRemoved(r, s) ==
  IF rowCount(s) > 0
  THEN currentIndexChanged(IF r < rowCount(s) THEN r ELSE rowCount(s) - 1, s)
  ELSE /\ currentIndex' = -1
       /\ mapperIndex' = -1
       /\ widget' = widget
       /\ enabled' = schemeSelected(-1)

\* the history of the last copy once row r has left the table
copiedAfterRemove(r) ==
  IF ~copied.valid \/ r = copied.idx THEN NoCopy
  ELSE [copied EXCEPT
          !.idx = IF r < copied.idx THEN copied.idx - 1 ELSE copied.idx,
          !.src = IF r = copied.src THEN -1
                  ELSE IF r < copied.src THEN copied.src - 1 ELSE copied.src]

\* the rest of PageScheme::deleteRow once exec() has returned; remove says
\* whether model->removeRow(currentIndex) is called
deleteRow_rest(answer, remove) ==
  /\ prompt
  /\ prompt' = FALSE
  /\ IF remove
     THEN /\ schemes' = removeRow(schemes, currentIndex)
          /\ IF rowCount(schemes') < rowCount(schemes)
             THEN /\ rowsRemoved(currentIndex, schemes')
                  /\ copied' = copiedAfterRemove(currentIndex)
             ELSE UNCHANGED <<currentIndex, mapperIndex, widget, enabled, copied>>
     ELSE UNCHANGED <<schemes, currentIndex, mapperIndex, widget, enabled, copied>>
  /\ last' = [op |-> IF answer = "Ok" THEN "deleteOk" ELSE "deleteCancel",
               w |-> "", arg |-> 0]
  /\ UNCHANGED <<modelSet, edits, pre>>

\* the answer to the box, with the comparison the wrong way round
reallyDelete_inverted(answer) == deleteRow_rest(answer, answer # "Ok")

\* the answer to the box, with the row removed whatever the answer
reallyDelete_anyAnswer(answer) == deleteRow_rest(answer, TRUE)

\* the answer to the box: if (reallyDelete.exec() == QMessageBox::Ok)
reallyDelete(answer) == deleteRow_rest(answer, answer = "Ok")

(***************************************************************************)
(* Field edits.                                                            *)
(***************************************************************************)
\* the column a control is bound to, with the last mapping one too low
section_shifted(w) == IF w = "SB_GetAwayTime" THEN 38 ELSE mapping[w]

\* the column a control is bound to (mapper->addMapping)
section(w) == mapping[w]

\* the values typed into spin box w: one below the range, one above it, and
\* one next to the constructor's value
typedValues(w) ==
  {SpinBoxes[w].min - 1, SpinBoxes[w].max + 1, SpinBoxes[w].value + 1}

\* the user has set control w to nv (by op, with argument arg): the mapper
\* writes the value into the bound column of its current row at once
commitData(w, nv, op, arg) ==
  /\ modelSet /\ ~prompt
  /\ enabled[groupOf(w)]
  /\ mapperIndex >= 0
  /\ edits < MaxEdits
  /\ edits' = edits + 1
  /\ widget' = [widget EXCEPT ![w] = nv]
  /\ schemes' = setData(schemes, mapperIndex, section(w), nv)
  /\ last' = [op |-> op, w |-> w, arg |-> arg]
  /\ pre' = Snapshot
  /\ copied' = IF copied.valid /\ copied.idx = mapperIndex THEN NoCopy
               ELSE copied
  /\ UNCHANGED <<modelSet, currentIndex, mapperIndex, enabled, prompt>>

\* the user types a name
editName(t) == commitData("LE_name", t, "editName", 0)

\* the user clicks a toggle button
toggle(w) == commitData(w, ~widget[w], "toggle", 0)

\* the user clicks an arrow of a spin box
spinStep(w, n) == commitData(w, stepBy(w, widget[w], n), "spinStep", n)

\* the user types a number into a spin box
spinType(w, v) == commitData(w, typeValue(w, widget[w], v), "spinType", v)

\* the controls the user edits between the table operations: the name, one
\* toggle button and one spin box
editedToggles == {"TBW_tagteam"}
editedSpins   == {"SB_DamageModifier"}

\* the page with all its operations
Next ==
  \/ setModel
  \/ \E n \in 0..(MaxRows - 1) : selectRow(n)
  \/ newRow
  \/ copyRow
  \/ deleteRow
  \/ \E answer \in {"Ok", "Cancel"} : reallyDelete(answer)
  \/ \E t \in {"x"} : editName(t)
  \/ \E w \in editedToggles : toggle(w)
  \/ \E w \in editedSpins : \E n \in {-1, 1} : spinStep(w, n)
  \/ \E w \in editedSpins : \E v \in typedValues(w) : spinType(w, v)

Spec == Init /\ [][Next]_vars

\* the page with every one of its 40 controls edited, over the table the
\* session started with
NextEdit ==
  \/ setModel
  \/ \E n \in 0..(MaxRows - 1) : selectRow(n)
  \/ \E t \in {"x", "y"} : editName(t)
  \/ \E w \in ToggleCtl : toggle(w)
  \/ \E w \in SpinCtl : \E n \in {-1, 1} : spinStep(w, n)
  \/ \E w \in SpinCtl : \E v \in typedValues(w) : spinType(w, v)

SpecEdit == Init /\ [][NextEdit]_vars

(***************************************************************************)
(* Properties.                                                             *)
(***************************************************************************)
allDisabled ==
  ~enabled.gbGameModes /\ ~enabled.gbBasicSettings /\ ~enabled.LE_name

allEnabled ==
  enabled.gbGameModes /\ enabled.gbBasicSettings /\ enabled.LE_name

isEdit(op) == op \in {"editName", "toggle", "spinStep", "spinType"}

\* table s without its row r
without(s, r) ==
  [i \in 1..(Len(s) - 1) |-> IF i <= r THEN s[i] ELSE s[i + 1]]

\* C1: whenever the selected row is a built-in one (its index is below
\* numberOfDefaultSchemes), both groups and the name field are disabled
C1_LockedRowIsReadOnly ==
  (currentIndex >= 0 /\ currentIndex < numberOfDefaultSchemes) => allDisabled

\* a confirmed delete of the first user row, the last of the table, has
\* moved the selection onto a built-in row
C1_Witness ==
  /\ last.op = "deleteOk"
  /\ Len(schemes) < Len(pre.schemes)
  /\ currentIndex < numberOfDefaultSchemes
  /\ allDisabled

\* C2: the built-in rows stay at their indices with their initial values,
\* and a confirmed delete of a built-in row leaves the table as it was
C2_DefaultRowsUntouched ==
  /\ \A n \in 0..(numberOfDefaultSchemes - 1) :
       n < Len(schemes) /\ schemes[n + 1] = predefScheme(n)
  /\ (last.op = "deleteOk" /\ pre.currentIndex < numberOfDefaultSchemes)
       => schemes = pre.schemes

\* the user confirmed the delete of a built-in row
C2_Witness ==
  /\ last.op = "deleteOk"
  /\ pre.currentIndex < numberOfDefaultSchemes
  /\ edits > 0

\* C3: the row newRow makes is the last of the table, one more than before,
\* every number of it is the documented default (the value the constructor
\* gives the spin box), every flag is off, and it is the selected row
C3_NewRowHasDefaults ==
  last.op = "newRow" =>
    /\ Len(schemes) = Len(pre.schemes) + 1
    /\ \A w \in SpinCtl : schemes[Len(schemes)][mapping[w]] = SpinBoxes[w].value
    /\ \A k \in 1..24 : schemes[Len(schemes)][k] = FALSE
    /\ currentIndex = Len(schemes) - 1

\* newRow ran while a user row with other values was selected
C3_Witness ==
  /\ last.op = "newRow"
  /\ pre.currentIndex >= numberOfDefaultSchemes
  /\ pre.schemes[pre.currentIndex + 1][25] # 100
  /\ schemes[Len(schemes)][25] = 100

\* C4: the row copyRow made holds the values row R had when it was copied,
\* right after the copy and after any later operation that leaves the copy
\* itself alone, edits of R included
C4_CopyKeepsSnapshot ==
  /\ last.op = "copyRow" =>
       copied.valid /\ copied.snapshot = pre.schemes[pre.currentIndex + 1]
  /\ copied.valid =>
       /\ copied.idx >= 0 /\ copied.idx < Len(schemes)
       /\ schemes[copied.idx + 1] = copied.snapshot

\* R was edited after the copy and the copy still holds the old values
C4_Witness ==
  /\ copied.valid
  /\ copied.src >= 0
  /\ schemes[copied.src + 1] # copied.snapshot
  /\ schemes[copied.idx + 1] = copied.snapshot

\* C5: copyRow on a table of n rows with row i selected leaves n + 1 rows,
\* rows 0..n-1 where and as they were, the copy of row i at index n, and
\* index n selected
C5_CopyAppends ==
  last.op = "copyRow" =>
    /\ Len(schemes) = Len(pre.schemes) + 1
    /\ \A i \in 1..Len(pre.schemes) : schemes[i] = pre.schemes[i]
    /\ schemes[Len(schemes)] = pre.schemes[pre.currentIndex + 1]
    /\ currentIndex = Len(pre.schemes)

\* the copied row was not the last one, and rows with other values lay
\* between it and the end of the table
C5_Witness ==
  /\ last.op = "copyRow"
  /\ pre.currentIndex + 1 < Len(pre.schemes)
  /\ pre.schemes[pre.currentIndex + 1] # pre.schemes[Len(pre.schemes)]
  /\ currentIndex = Len(schemes) - 1

\* C6 as stated: every confirmed delete takes exactly the selected row out
\* of the table
C6_AsStated ==
  last.op = "deleteOk" =>
    /\ Len(schemes) = Len(pre.schemes) - 1
    /\ schemes = without(pre.schemes, pre.currentIndex)

\* C6: a confirmed delete with a user row selected (index at or above
\* numberOfDefaultSchemes) takes exactly that row out of the table: one row
\* less, the other rows with their values and in their order; with a
\* built-in row selected the table keeps all its rows
C6_ConfirmedDeleteRemovesUserRow ==
  last.op = "deleteOk" =>
    IF pre.currentIndex >= numberOfDefaultSchemes
    THEN /\ Len(schemes) = Len(pre.schemes) - 1
         /\ \A i \in 1..Len(schemes) :
              schemes[i] = pre.schemes[IF i <= pre.currentIndex THEN i ELSE i + 1]
    ELSE Len(schemes) = Len(pre.schemes)

\* a user row that was not the last one has been deleted
C6_Witness ==
  /\ last.op = "deleteOk"
  /\ pre.currentIndex >= numberOfDefaultSchemes
  /\ pre.currentIndex + 1 < Len(pre.schemes)
  /\ pre.schemes[pre.currentIndex + 1] # pre.schemes[pre.currentIndex + 2]

\* C7: while the box is open, and after it was answered with Cancel, the
\* table, the selection and the lock are what they were when it opened
C7_CancelChangesNothing ==
  (prompt \/ last.op = "deleteCancel") =>
    /\ schemes = pre.schemes
    /\ currentIndex = pre.currentIndex
    /\ enabled = pre.enabled

\* the delete of an edited user row was cancelled
C7_Witness ==
  /\ last.op = "deleteCancel"
  /\ ~prompt
  /\ currentIndex >= numberOfDefaultSchemes
  /\ edits > 0

\* C8: the 40 controls are bound one to one to the columns 0..39, and an
\* edit of a control on a user row puts the control's value into its column
\* of the selected row, and changes nothing else in the table
C8_EditWritesOwnColumn ==
  /\ Cardinality(Controls) = 40
  /\ \A k \in Columns : Cardinality({w \in Controls : section(w) = k}) = 1
  /\ (isEdit(last.op) /\ pre.currentIndex >= numberOfDefaultSchemes) =>
       /\ currentIndex = pre.currentIndex
       /\ schemes = [pre.schemes EXCEPT
                       ![pre.currentIndex + 1][mapping[last.w]] = widget[last.w]]

\* the control bound to the last column was edited and the table changed
C8_Witness ==
  /\ isEdit(last.op)
  /\ last.w = "SB_GetAwayTime"
  /\ schemes # pre.schemes
  /\ schemes[currentIndex + 1][39] = widget["SB_GetAwayTime"]

\* v lies in the range of spin box w
inRange(w, v) == v >= SpinBoxes[w].min /\ v <= SpinBoxes[w].max

\* v is a whole number of steps away from the minimum of w, or from 0
onStepGrid(w, v) ==
  \/ (v - SpinBoxes[w].min) % SpinBoxes[w].step = 0
  \/ v % SpinBoxes[w].step = 0

\* C9 as stated: every value a spin box holds, the constructor's included,
\* lies in its range and on its step grid
C9_AsStated ==
  \A w \in SpinCtl :
    /\ inRange(w, SpinBoxes[w].value) /\ onStepGrid(w, SpinBoxes[w].value)
    /\ inRange(w, widget[w]) /\ onStepGrid(w, widget[w])

\* C9: every value a spin box holds, the constructor's included, lies in
\* its range, and so does every number an edit puts into the table; a typed
\* value outside the range leaves the box as it was, an arrow moves the
\* value by one step or to the end of the range
C9_ValuesStayInRange ==
  /\ \A w \in SpinCtl :
       /\ inRange(w, SpinBoxes[w].value)
       /\ inRange(w, widget[w])
       /\ \A i \in 1..Len(schemes) : inRange(w, schemes[i][mapping[w]])
  /\ last.op = "spinType" =>
       widget[last.w] = IF inRange(last.w, last.arg) THEN last.arg
                        ELSE pre.schemes[pre.currentIndex + 1][mapping[last.w]]
  /\ last.op = "spinStep" =>
       LET old == pre.schemes[pre.currentIndex + 1][mapping[last.w]]
           to  == old + last.arg * SpinBoxes[last.w].step
       IN  widget[last.w] = IF inRange(last.w, to) THEN to
                            ELSE IF last.arg = 1 THEN SpinBoxes[last.w].max
                            ELSE SpinBoxes[last.w].min

\* an arrow was clicked where a full step would leave the range
C9_Witness ==
  /\ last.op = "spinStep"
  /\ last.arg = 1
  /\ pre.schemes[pre.currentIndex + 1][mapping[last.w]] < SpinBoxes[last.w].max
  /\ pre.schemes[pre.currentIndex + 1][mapping[last.w]] + SpinBoxes[last.w].step
       > SpinBoxes[last.w].max
  /\ widget[last.w] = SpinBoxes[last.w].max

\* C10: after newRow the selected row is the last one, its index is at or
\* above numberOfDefaultSchemes, and all controls are enabled
C10_NewRowIsEditable ==
  last.op = "newRow" =>
    /\ currentIndex = Len(schemes) - 1
    /\ currentIndex >= numberOfDefaultSchemes
    /\ allEnabled

\* newRow ran on a table shrunk back to the built-in rows, with a locked
\* row selected: the new row is the first past the boundary
C10_Witness ==
  /\ last.op = "newRow"
  /\ currentIndex = numberOfDefaultSchemes
  /\ ~pre.enabled.LE_name
  /\ allEnabled
  /\ edits > 0

\* C11: once the model is set, a selected row at or above
\* numberOfDefaultSchemes has all controls enabled, whatever changed the
\* selection; and after a confirmed delete took a row out, the lock is the
\* one of the row now selected: all enabled at or above the boundary, all
\* disabled below it
C11_UserRowIsEditable ==
  /\ (modelSet /\ currentIndex >= numberOfDefaultSchemes) => allEnabled
  /\ (last.op = "deleteOk" /\ Len(schemes) < Len(pre.schemes)) =>
       IF currentIndex >= numberOfDefaultSchemes THEN allEnabled
       ELSE allDisabled

\* a confirmed delete of the last row moved the selection down onto
\* another user row, which is editable
C11_Witness ==
  /\ last.op = "deleteOk"
  /\ Len(schemes) < Len(pre.schemes)
  /\ currentIndex = pre.currentIndex - 1
  /\ currentIndex >= numberOfDefaultSchemes
  /\ allEnabled

\* C12: once the model is set and the table is not empty, the selection is
\* a row of the table and the mapper shows that row; newRow and copyRow
\* leave one row more and the selection on the last row
C12_SelectionIsARow ==
  /\ (modelSet /\ Len(schemes) > 0) =>
       /\ currentIndex >= 0 /\ currentIndex < Len(schemes)
       /\ mapperIndex = currentIndex
  /\ last.op \in {"newRow", "copyRow"} =>
       /\ Len(schemes) = Len(pre.schemes) + 1
       /\ currentIndex = Len(schemes) - 1

\* the last row of the table was deleted while selected, and the selection
\* is the new last row
C12_Witness ==
  /\ last.op = "deleteOk"
  /\ pre.currentIndex = Len(pre.schemes) - 1
  /\ Len(schemes) = Len(pre.schemes) - 1
  /\ currentIndex = Len(schemes) - 1

====
